---- MODULE Spec2Model ----
(***************************************************************************)
(* Agent mode of Project-Omega: the natural-language command interpreter,  *)
(* the safety filter, the command executor and the per-turn handlers of    *)
(* app_enhanced_v3.py (v3), app_enhanced_v3_1.py (v3.1) and                 *)
(* app_enhanced_v3_2.py (v3.2).                                             *)
(*                                                                         *)
(* Texts are TLA+ strings handled character by character; the regular      *)
(* expressions of the source are kept as their source text and evaluated   *)
(* by a backtracking matcher with the semantics of Python's re.search for  *)
(* the constructs the source uses: literals, '.', '\s', '\w', '\b', escaped *)
(* punctuation, character classes, greedy '*' and '+', and capture groups. *)
(***************************************************************************)
EXTENDS Integers, Sequences, FiniteSets, TLC

(***************************************************************************)
(* Characters and Python str primitives                                    *)
(***************************************************************************)

\* s[a-1:b], empty when the range is empty
Slice(s, a, b) == IF a > b THEN "" ELSE SubSeq(s, a, b)

\* the character s[i-1], or "" past either end
Ch(s, i) == IF i >= 1 /\ i <= Len(s) THEN SubSeq(s, i, i) ELSE ""

UpperChars == "ABCDEFGHIJKLMNOPQRSTUVWXYZ"
LowerChars == "abcdefghijklmnopqrstuvwxyz"
DigitChars == "0123456789"

InStr(c, chars) == \E j \in 1..Len(chars) : Ch(chars, j) = c

\* str.lower() on one character
LowerCh(c) ==
  IF InStr(c, UpperChars)
    THEN Ch(LowerChars, CHOOSE j \in 1..Len(UpperChars) : Ch(UpperChars, j) = c)
    ELSE c

RECURSIVE LowerFrom(_, _)
LowerFrom(s, i) ==
  IF i > Len(s) THEN "" ELSE LowerCh(Ch(s, i)) \o LowerFrom(s, i + 1)

\* str.lower()
Lower(s) == LowerFrom(s, 1)

\* the characters str.strip() removes and the regex class \s matches
IsSpace(c) == c \in {" ", "\t", "\n", "\r", "\f"}

\* the regex class \w
IsWord(c) == InStr(c, LowerChars) \/ InStr(c, UpperChars) \/ InStr(c, DigitChars) \/ c = "_"

RECURSIVE LStripAt(_, _)
LStripAt(s, i) ==
  IF i <= Len(s) /\ IsSpace(Ch(s, i)) THEN LStripAt(s, i + 1) ELSE i

RECURSIVE RStripAt(_, _)
RStripAt(s, j) ==
  IF j >= 1 /\ IsSpace(Ch(s, j)) THEN RStripAt(s, j - 1) ELSE j

\* str.strip()
Strip(s) == Slice(s, LStripAt(s, 1), RStripAt(s, Len(s)))

\* str.startswith(prefix)
StartsWith(s, prefix) ==
  Len(s) >= Len(prefix) /\ SubSeq(s, 1, Len(prefix)) = prefix

\* str.startswith(tuple of prefixes)
StartsWithAny(s, prefixes) == \E k \in 1..Len(prefixes) : StartsWith(s, prefixes[k])

\* prefix in s at position i
HasAt(s, i, sub) ==
  i + Len(sub) - 1 <= Len(s) /\ SubSeq(s, i, i + Len(sub) - 1) = sub

\* `sub in s`
Contains(s, sub) == \E i \in 1..(Len(s) + 1) : HasAt(s, i, sub)

\* s.split(' ', 1)[1], for s that contains a space
AfterFirstSpace(s) ==
  LET i == CHOOSE k \in 1..Len(s) : Ch(s, k) = " " /\ \A m \in 1..(k - 1) : Ch(s, m) # " "
  IN Slice(s, i + 1, Len(s))

RECURSIVE ReplaceFrom(_, _, _, _)
ReplaceFrom(s, i, old, new) ==
  IF i > Len(s) THEN ""
  ELSE IF HasAt(s, i, old) THEN new \o ReplaceFrom(s, i + Len(old), old, new)
  ELSE Ch(s, i) \o ReplaceFrom(s, i + 1, old, new)

\* str.replace(old, new), old not empty
Replace(s, old, new) == ReplaceFrom(s, 1, old, new)

(***************************************************************************)
(* re.search                                                               *)
(***************************************************************************)

NoMatch == [ok |-> FALSE, start |-> 0, end |-> 0, groups |-> <<>>]

\* the position of the ']' that closes the character class opened at k
ClassEnd(p, k) ==
  LET ends == {j \in (k + 1)..Len(p) : Ch(p, j) = "]"}
  IN CHOOSE j \in ends : \A x \in ends : j <= x

\* width in the pattern text of the atom at k
AtomLen(p, k) ==
  IF Ch(p, k) = "\\" THEN 2
  ELSE IF Ch(p, k) = "[" THEN ClassEnd(p, k) - k + 1
  ELSE 1

\* does the escape \e accept character c
EscapeMatches(e, c) ==
  IF e = "s" THEN IsSpace(c) ELSE IF e = "w" THEN c # "" /\ IsWord(c) ELSE c = e

\* does the one-character atom at k of pattern p accept character c
AtomMatches(p, k, c, ic) ==
  IF Ch(p, k) = "\\" THEN EscapeMatches(Ch(p, k + 1), c)
  ELSE IF Ch(p, k) = "["
    THEN \E j \in (k + 1)..(ClassEnd(p, k) - 1) :
           IF Ch(p, j) = "\\" THEN EscapeMatches(Ch(p, j + 1), c)
           ELSE Ch(p, j - 1) # "\\" /\ c = Ch(p, j)
  ELSE IF Ch(p, k) = "." THEN c # "\n"
  ELSE IF ic THEN LowerCh(c) = LowerCh(Ch(p, k)) ELSE c = Ch(p, k)

\* the assertion \b at position i (before the character s[i])
AtWordBoundary(s, i) ==
  LET before == i > 1 /\ IsWord(Ch(s, i - 1))
      after  == i <= Len(s) /\ IsWord(Ch(s, i))
  IN before # after

\* number of consecutive characters from i that the atom at k accepts
Run(p, k, s, i, ic) ==
  LET stops == {j \in i..(Len(s) + 1) : j > Len(s) \/ ~AtomMatches(p, k, Ch(s, j), ic)}
  IN (CHOOSE j \in stops : \A x \in stops : j <= x) - i

CloseGroup(caps, i) ==
  [caps EXCEPT ![Len(caps)] = [from |-> caps[Len(caps)].from, to |-> i - 1]]

RECURSIVE MatchHere(_, _, _, _, _, _)
RECURSIVE Greedy(_, _, _, _, _, _, _, _)

\* match pattern p from its position k against s from position i; the first
\* match in backtracking order, or NoMatch
MatchHere(p, k, s, i, ic, caps) ==
  IF k > Len(p) THEN [ok |-> TRUE, start |-> 0, end |-> i - 1, groups |-> caps]
  ELSE IF Ch(p, k) = "(" THEN MatchHere(p, k + 1, s, i, ic, Append(caps, [from |-> i, to |-> i - 1]))
  ELSE IF Ch(p, k) = ")" THEN MatchHere(p, k + 1, s, i, ic, CloseGroup(caps, i))
  ELSE IF HasAt(p, k, "\\b")
    THEN IF AtWordBoundary(s, i) THEN MatchHere(p, k + 2, s, i, ic, caps) ELSE NoMatch
  ELSE LET al == AtomLen(p, k)
           q  == Ch(p, k + al)
       IN IF q = "*" THEN Greedy(p, k + al + 1, s, i, ic, caps, Run(p, k, s, i, ic), 0)
          ELSE IF q = "+" THEN Greedy(p, k + al + 1, s, i, ic, caps, Run(p, k, s, i, ic), 1)
          ELSE IF i <= Len(s) /\ AtomMatches(p, k, Ch(s, i), ic)
            THEN MatchHere(p, k + al, s, i + 1, ic, caps)
            ELSE NoMatch

\* a greedy quantifier: the longest repetition, of at least `least` and at most
\* n characters, after which the rest of the pattern (from nk) matches
Greedy(p, nk, s, i, ic, caps, n, least) ==
  LET fits == {c \in least..n : MatchHere(p, nk, s, i + c, ic, caps).ok}
  IN IF fits = {} THEN NoMatch
     ELSE MatchHere(p, nk, s, i + (CHOOSE c \in fits : \A x \in fits : x <= c), ic, caps)

\* the leftmost position from i at which p matches
SearchFrom(p, s, i, ic) ==
  LET starts == {j \in i..(Len(s) + 1) : MatchHere(p, 1, s, j, ic, <<>>).ok}
  IN IF starts = {} THEN NoMatch
     ELSE LET j == CHOOSE j \in starts : \A x \in starts : j <= x
          IN [MatchHere(p, 1, s, j, ic, <<>>) EXCEPT !.start = j]

\* re.search(p, s) and re.search(p, s, re.IGNORECASE): the leftmost match
Search(p, s, ic) == SearchFrom(p, s, 1, ic)

\* match.group(): the matched text
MatchText(s, m) == Slice(s, m.start, m.end)

\* match.groups(), as texts
GroupText(s, m, g) == Slice(s, m.groups[g].from, m.groups[g].to)

(***************************************************************************)
(* Configuration tables                                                    *)
(***************************************************************************)

COMMAND_PATTERNS_v3_1 == <<
  [patterns |-> <<"what.*python.*version", "python.*version", "check python">>,
   command |-> "python --version",
   description |-> "Check Python version"],
  [patterns |-> <<"list.*files", "show.*files", "what.*files", "ls">>,
   command |-> "ls -la",
   description |-> "List files in current directory"],
  [patterns |-> <<"current.*directory", "where.*am.*i", "pwd", "what.*directory">>,
   command |-> "pwd",
   description |-> "Show current directory"],
  [patterns |-> <<"disk.*space", "storage.*space", "df", "disk.*usage">>,
   command |-> "df -h",
   description |-> "Show disk space usage"],
  [patterns |-> <<"memory.*usage", "ram.*usage", "free.*memory">>,
   command |-> "free -h",
   description |-> "Show memory usage"],
  [patterns |-> <<"running.*processes", "process.*list", "ps">>,
   command |-> "ps aux | head -20",
   description |-> "Show running processes"],
  [patterns |-> <<"system.*info", "os.*info", "uname">>,
   command |-> "uname -a",
   description |-> "Show system information"],
  [patterns |-> <<"ip.*address", "network.*info", "ifconfig">>,
   command |-> "ip addr show",
   description |-> "Show network interfaces"],
  [patterns |-> <<"install.*pip.*(.+)", "pip.*install.*(.+)">>,
   command |-> "pip install {1}",
   description |-> "Install Python package via pip"],
  [patterns |-> <<"create.*directory.*(.+)", "mkdir.*(.+)">>,
   command |-> "mkdir -p {1}",
   description |-> "Create directory"],
  [patterns |-> <<"remove.*file.*(.+)", "delete.*file.*(.+)", "rm.*(.+)">>,
   command |-> "rm -f {1}",
   description |-> "Remove file"] >>

COMMAND_PATTERNS_v3_2 == <<
  [patterns |-> <<"what.*python.*version", "python.*version", "check python">>,
   command |-> "python --version",
   description |-> "Check Python version"],
  [patterns |-> <<"list.*files", "show.*files", "what.*files", "ls">>,
   command |-> "ls -la",
   description |-> "List files in current directory"],
  [patterns |-> <<"current.*directory", "where.*am.*i", "pwd", "what.*directory">>,
   command |-> "pwd",
   description |-> "Show current directory"],
  [patterns |-> <<"disk.*space", "storage.*space", "df", "disk.*usage">>,
   command |-> "df -h",
   description |-> "Show disk space usage"],
  [patterns |-> <<"memory.*usage", "ram.*usage", "free.*memory", "memory.*info">>,
   command |-> "free -h",
   description |-> "Show memory usage"],
  [patterns |-> <<"system.*info", "system.*details", "uname", "os.*info">>,
   command |-> "uname -a",
   description |-> "Show system information"],
  [patterns |-> <<"processes", "running.*processes", "ps", "what.*running">>,
   command |-> "ps aux",
   description |-> "Show running processes"],
  [patterns |-> <<"network.*info", "ip.*address", "ifconfig", "network.*config">>,
   command |-> "ip addr show",
   description |-> "Show network configuration"] >>

\* the explicit-command markers of v3.1's interpret_command
DirectMarkers == <<"/cmd ", "/terminal ", "$ ", "> ">>

\* dangerous_patterns of v3's _is_safe_command
dangerous_patterns_v3 == <<
  "\\brm\\s+-rf\\s+/",
  "\\bshutdown\\b",
  "\\breboot\\b",
  "\\bhalt\\b",
  "\\bmkfs\\b",
  "\\bddof=/dev/",
  ":\\(\\)\\{.*\\|\\&\\}:" >>

\* dangerous_patterns of v3.1's _is_safe_command
dangerous_patterns_v3_1 == <<
  "\\brm\\s+-rf\\s+/",
  "\\bshutdown\\b",
  "\\breboot\\b",
  "\\bhalt\\b",
  "\\bmkfs\\b",
  "\\bdd\\s+of=/dev/",
  ":\\(\\)\\{.*\\|\\&\\}:" >>

(***************************************************************************)
(* Inputs and the outcomes of the external collaborators                   *)
\* TUNNEL_PROVIDERS, in dict order; the table is the same in the three
\* versions. The model runs its first two entries (of four: localtunnel and
\* serveo follow, with priorities 3 and 4).
TUNNEL_PROVIDERS == <<
  [id |-> "cloudflare", name |-> "Cloudflare Tunnel",
   url_pattern |-> "https://[\\w-]+\\.trycloudflare\\.com",
   priority |-> 1, enabled |-> TRUE],
  [id |-> "ngrok", name |-> "ngrok",
   url_pattern |-> "https://[\\w-]+\\.ngrok-free\\.app",
   priority |-> 2, enabled |-> TRUE] >>

\* the keys of TUNNEL_PROVIDERS
ProviderIds == {TUNNEL_PROVIDERS[k].id : k \in 1..Len(TUNNEL_PROVIDERS)}

\* the provider names callers pass: the configured ones and an unknown one
ProviderArgs == ProviderIds \cup {"bore"}

\* TUNNEL_PROVIDERS[provider]
Config(provider) ==
  TUNNEL_PROVIDERS[CHOOSE k \in 1..Len(TUNNEL_PROVIDERS) : TUNNEL_PROVIDERS[k].id = provider]

(***************************************************************************)

\* user texts of an agent turn
Messages == {
  "", "  ", "hello there", "tell me a joke", "what is love",
  "list files", "List Files", "  list files ", "what is the python version?",
  "show current directory", "check disk space", "free memory",
  "list python version files", "pip install tools",
  "install pip package requests", "pip install requests", "Install pip package Flask ",
  "create directory foo", "mkdir a \nb", "remove file a.txt", "rm a\nremove file b",
  "/cmd", "/cmd ", "/cmd ls -la", "/cmd  ls", "/CMD Echo Hi", " /cmd ls", "\t/cmd pwd",
  "$ pwd", "> date", "/terminal uptime", "/cmd sleep 60", "/cmd list files",
  "/cmd rm -rf /", "/cmd RM  -RF\t/tmp", "  /cmd rm -rf /", "/terminal halt",
  "/cmd sudo shutdown -h now", "/cmd Reboot", "/cmd mkfs.ext4 /dev/sdb",
  "/cmd dd of=/dev/sda", "/cmd dd if=/dev/zero of=/dev/sda", "/cmd ddof=/dev/sda",
  "/cmd :(){ :|:& };:", "/cmd :(){ x|&}:",
  "What is the Python version?", "List files", "Show current directory",
  "Check disk space", "Install pip package requests", "/cmd python --version" }

Versions == {"v3", "v3.1", "v3.2"}

\* exit statuses a completed shell reports
ReturnCodes == {0, 1, 127}

\* captured standard output and standard error of a completed command
StdoutTexts == {"", "out\n"}
StderrTexts == {"", "warn\n"}

\* str(e) of an exception raised by subprocess.run other than TimeoutExpired
ExceptionTexts == {"[Errno 2] No such file or directory: '/root'"}

\* what send_to_ollama returns
OllamaReplies == {"Hi.", "Error: Ollama API returned status 500"}


(***************************************************************************)
(* SafetyFilter                                                            *)
(***************************************************************************)

\* for pattern in dangerous_patterns: if re.search(pattern, command, re.IGNORECASE)
MatchesDenylist(patterns, command) ==
  \E k \in 1..Len(patterns) : Search(patterns[k], command, TRUE).ok

is_safe_command_v3(command) == ~MatchesDenylist(dangerous_patterns_v3, command)

\* _is_safe_command of v3.1 with re.IGNORECASE left out of re.search
is_safe_command_v3_1_CaseSensitive(command) ==
  ~\E k \in 1..Len(dangerous_patterns_v3_1) :
      Search(dangerous_patterns_v3_1[k], command, FALSE).ok

is_safe_command_v3_1(command) == ~MatchesDenylist(dangerous_patterns_v3_1, command)

(***************************************************************************)
(* CommandInterpreter                                                      *)
(***************************************************************************)

\* (None, None) of v3.1, None of v3.2
NoCommand == [some |-> FALSE, command |-> "", interpretation |-> ""]

\* the two loops without the return at the first match: the last (rule,
\* pattern) whose pattern is found in text
RECURSIVE FirstMatch_NoEarlyReturn(_, _, _, _)
FirstMatch_NoEarlyReturn(rules, text, r, k) ==
  IF r > Len(rules) THEN <<0, 0>>
  ELSE IF k > Len(rules[r].patterns) THEN FirstMatch_NoEarlyReturn(rules, text, r + 1, 1)
  ELSE LET later == FirstMatch_NoEarlyReturn(rules, text, r, k + 1)
       IN IF later[1] # 0 THEN later
          ELSE IF Search(rules[r].patterns[k], text, FALSE).ok THEN <<r, k>>
          ELSE <<0, 0>>

\* the first (rule, pattern) in list order whose pattern is found in text, as
\* <<rule index, pattern index>>; <<0, 0>> when the two loops run out
RECURSIVE FirstMatch(_, _, _, _)
FirstMatch(rules, text, r, k) ==
  IF r > Len(rules) THEN <<0, 0>>
  ELSE IF k > Len(rules[r].patterns) THEN FirstMatch(rules, text, r + 1, 1)
  ELSE IF Search(rules[r].patterns[k], text, FALSE).ok THEN <<r, k>>
  ELSE FirstMatch(rules, text, r, k + 1)

\* the substitution loop with group instead of group.strip()
RECURSIVE Substitute_NoStrip(_, _, _, _)
Substitute_NoStrip(command, text, m, i) ==
  IF i > Len(m.groups) THEN command
  ELSE Substitute_NoStrip(Replace(command, "{" \o ToString(i) \o "}", GroupText(text, m, i)),
                          text, m, i + 1)

\* for i, group in enumerate(match.groups(), 1):
\*     command = command.replace('{i}', group.strip())
RECURSIVE Substitute(_, _, _, _)
Substitute(command, text, m, i) ==
  IF i > Len(m.groups) THEN command
  ELSE Substitute(Replace(command, "{" \o ToString(i) \o "}", Strip(GroupText(text, m, i))),
                  text, m, i + 1)

\* the direct-command branch of v3.1's interpret_command
DirectCommand(user_message) ==
  LET command == IF Contains(user_message, " ") THEN AfterFirstSpace(user_message) ELSE ""
  IN [some |-> TRUE, command |-> command, interpretation |-> "Direct command: " \o command]

\* AgentMode.interpret_command of v3.1
interpret_command_v3_1(user_message) ==
  LET user_message_lower == Strip(Lower(user_message))
  IN IF StartsWithAny(user_message_lower, DirectMarkers) THEN DirectCommand(user_message)
     ELSE LET f == FirstMatch(COMMAND_PATTERNS_v3_1, user_message_lower, 1, 1)
          IN IF f[1] = 0 THEN NoCommand
             ELSE LET pattern_group == COMMAND_PATTERNS_v3_1[f[1]]
                      match == Search(pattern_group.patterns[f[2]], user_message_lower, FALSE)
                  IN [some |-> TRUE,
                      command |-> Substitute(pattern_group.command, user_message_lower, match, 1),
                      interpretation |-> "Interpreted '" \o user_message \o "' as: "
                                           \o pattern_group.description]

\* AgentCommandInterpreter.interpret_command of v3.2
interpret_command_v3_2(user_input) ==
  LET user_input_lower == Strip(Lower(user_input))
      f == FirstMatch(COMMAND_PATTERNS_v3_2, user_input_lower, 1, 1)
  IN IF f[1] = 0 THEN NoCommand
     ELSE [some |-> TRUE, command |-> COMMAND_PATTERNS_v3_2[f[1]].command, interpretation |-> ""]

\* the handlers' test turned round: `if not command:`
HasCommand_Negated(in) == ~(in.some /\ in.command # "")

\* the truth value of `if command:` / `if shell_command:` in the handlers
HasCommand(in) == in.some /\ in.command # ""

(***************************************************************************)
(* State                                                                   *)
(***************************************************************************)

VARIABLES
  pc,        \* "idle": no turn yet; "received": the socket event of a turn has
             \* arrived; "running": its handler is inside subprocess.run; "done":
             \* the handler has returned
  version,   \* the application version handling the turn
  message,   \* the user text of the turn
  interp,    \* what interpret_command returned (v3: the /cmd prefix parse)
  calls,     \* the calls the handler has made in this turn, in order
  result,    \* what execute_command returned, <<>> if it has not returned
  emitted,   \* the socket events emitted in this turn, in order
  stored     \* the rows store_message appended in this turn, in order

VARIABLES
  boot,             \* position of the start-up loop over TUNNEL_PROVIDERS
  starting,         \* start_tunnel calls between their check and their Popen
  TUNNEL_PROCESSES, \* the module's dict provider -> process handle
  ACTIVE_TUNNELS,   \* the module's dict provider -> url, in insertion order
  processes,        \* every tunnel process launched so far; a handle is its index
  monitors,         \* the task reading the stdout of each process
  tunnel_urls,      \* the rows of table tunnel_urls, in insertion order
  tunnel_updates    \* the 'tunnel_update' socket events emitted, in order

agent_vars == <<pc, message, interp, calls, result, emitted, stored>>

tunnel_vars == <<boot, starting, TUNNEL_PROCESSES, ACTIVE_TUNNELS, processes, monitors,
                 tunnel_urls, tunnel_updates>>

vars == <<pc, version, message, interp, calls, result, emitted, stored, boot, starting,
          TUNNEL_PROCESSES, ACTIVE_TUNNELS, processes, monitors, tunnel_urls,
          tunnel_updates>>

\* one call the handler made: the callee, its argument, and what it returned
\* ("pending" while it has not returned; the exception's name if it raised)
Call(fn, arg, ret) == [fn |-> fn, arg |-> arg, ret |-> ret]

\* the pending subprocess.run call returns or raises
Returned(cs, ret) == [cs EXCEPT ![Len(cs)].ret = ret]

\* no agent turn has arrived
AgentIdle ==
  /\ pc = "idle"
  /\ message = ""
  /\ interp = NoCommand
  /\ calls = <<>>
  /\ result = <<>>
  /\ emitted = <<>>
  /\ stored = <<>>

\* the module has been loaded: ACTIVE_TUNNELS = {}, TUNNEL_PROCESSES = {}, the
\* tunnels database empty, and the start-up loop not yet run
TunnelsIdle ==
  /\ boot = 1
  /\ starting = <<>>
  /\ TUNNEL_PROCESSES = [provider \in ProviderIds |-> 0]
  /\ ACTIVE_TUNNELS = <<>>
  /\ processes = <<>>
  /\ monitors = <<>>
  /\ tunnel_urls = <<>>
  /\ tunnel_updates = <<>>

Init ==
  /\ version = "v3.1"
  /\ AgentIdle
  /\ TunnelsIdle

\* the socket event of an agent turn arrives at the application of version v
\* with user text msg; calls, result, emitted and stored are those of the turn
receive(v, msg) ==
  /\ pc \in {"idle", "done"}
  /\ UNCHANGED tunnel_vars
  /\ pc' = "received"
  /\ version' = v
  /\ message' = msg
  /\ interp' = NoCommand
  /\ calls' = <<>>
  /\ result' = <<>>
  /\ emitted' = <<>>
  /\ stored' = <<>>

(***************************************************************************)
(* v3.1: AgentMode.execute_command and handle_agent_session                *)
(***************************************************************************)

\* a blocked result that tells which kind of pattern matched
BlockedResult_v3_1_Telling ==
  [success |-> FALSE, output |-> "", error |-> "Command blocked: matches a dangerous pattern",
   interpretation |-> ""]

BlockedResult_v3_1 ==
  [success |-> FALSE, output |-> "", error |-> "Command blocked for security reasons",
   interpretation |-> ""]

\* a completed result whose success does not look at the exit status
CompletedResult_v3_1_AnyStatus(command, rc, out, err) ==
  [success |-> TRUE, output |-> out, error |-> err, return_code |-> rc,
   interpretation |-> "Executed: " \o command]

CompletedResult_v3_1(command, rc, out, err) ==
  [success |-> (rc = 0), output |-> out, error |-> err, return_code |-> rc,
   interpretation |-> "Executed: " \o command]

TimeoutResult_v3_1(command) ==
  [success |-> FALSE, output |-> "", error |-> "Command timeout (30s limit)",
   interpretation |-> "Timeout: " \o command]

ExceptionResult_v3_1(command, e) ==
  [success |-> FALSE, output |-> "", error |-> e, interpretation |-> "Error: " \o command]

\* the response text handle_agent_session builds for a command result ("'"
\* stands for the backquote of the source's markdown)
CommandResponse_v3_1(in, res) ==
  "**Interpretation**: " \o in.interpretation \o "\n\n"
  \o "**Command**: '" \o in.command \o "'\n\n"
  \o (IF res.success
        THEN "**Output**:\n'''\n" \o res.output \o "\n'''"
             \o (IF res.error # "" THEN "\n\n**Warnings**:\n'''\n" \o res.error \o "\n'''" ELSE "")
        ELSE "**Error**:\n'''\n" \o res.error \o "\n'''")

\* the response text of the else branch ("*" and "->" stand for the bullet
\* and arrow characters of the source)
HelpResponse_v3_1(msg) ==
  "I understand you want to: \"" \o msg \o "\"\n\n"
  \o "I can help you with commands like:\n"
  \o "* **\"What is the Python version?\"** -> 'python --version'\n"
  \o "* **\"List files\"** -> 'ls -la'  \n"
  \o "* **\"Show current directory\"** -> 'pwd'\n"
  \o "* **\"Check disk space\"** -> 'df -h'\n"
  \o "* **\"Install pip package requests\"** -> 'pip install requests'\n\n"
  \o "You can also use direct commands: '/cmd python --version'\n\n"
  \o "What would you like me to help you with?"

\* the rest of handle_agent_session once execute_command has returned res
Finish_v3_1(msg, in, res) ==
  LET response == CommandResponse_v3_1(in, res)
  IN /\ result' = res
     /\ emitted' = <<[event |-> "message_response", response |-> response,
                      model |-> "agent-mode", session_type |-> "agent",
                      is_command_result |-> TRUE, command_success |-> res.success,
                      interpretation |-> in.interpretation]>>
     /\ stored' = <<[role |-> "user", content |-> msg],
                    [role |-> "assistant", content |-> response]>>
     /\ pc' = "done"

\* handle_agent_session(session_id, message, data), up to its return or to the
\* point where execute_command is inside subprocess.run
handle_agent_session ==
  \E msg \in {message} : \E in \in {interpret_command_v3_1(msg)} :
     /\ pc = "received" /\ version = "v3.1"
     /\ UNCHANGED tunnel_vars
     /\ UNCHANGED <<version, message>>
     /\ interp' = in
     /\ IF HasCommand(in)
          THEN LET safe == is_safe_command_v3_1(in.command)
               IN IF ~safe
                    THEN /\ calls' = <<Call("_is_safe_command", in.command, "False")>>
                         /\ Finish_v3_1(msg, in, BlockedResult_v3_1)
                    ELSE /\ calls' = <<Call("_is_safe_command", in.command, "True"),
                                       Call("subprocess.run", in.command, "pending")>>
                         /\ pc' = "running"
                         /\ result' = <<>>
                         /\ emitted' = <<>>
                         /\ stored' = <<>>
          ELSE LET response == HelpResponse_v3_1(msg)
               IN /\ calls' = <<>>
                  /\ result' = <<>>
                  /\ emitted' = <<[event |-> "message_response", response |-> response,
                                   model |-> "agent-mode", session_type |-> "agent",
                                   is_command_result |-> FALSE]>>
                  /\ stored' = <<[role |-> "user", content |-> msg],
                                 [role |-> "assistant", content |-> response]>>
                  /\ pc' = "done"

\* subprocess.run returns a CompletedProcess inside v3.1's execute_command
subprocess_completes_v3_1(rc, out, err) ==
  /\ pc = "running" /\ version = "v3.1"
  /\ UNCHANGED tunnel_vars
  /\ Finish_v3_1(message, interp, CompletedResult_v3_1(interp.command, rc, out, err))
  /\ calls' = Returned(calls, "CompletedProcess")
  /\ UNCHANGED <<version, message, interp>>

\* subprocess.run raises TimeoutExpired inside v3.1's execute_command
subprocess_timeout_v3_1 ==
  /\ pc = "running" /\ version = "v3.1"
  /\ UNCHANGED tunnel_vars
  /\ Finish_v3_1(message, interp, TimeoutResult_v3_1(interp.command))
  /\ calls' = Returned(calls, "TimeoutExpired")
  /\ UNCHANGED <<version, message, interp>>

\* subprocess.run raises another exception inside v3.1's execute_command
subprocess_raises_v3_1(e) ==
  /\ pc = "running" /\ version = "v3.1"
  /\ UNCHANGED tunnel_vars
  /\ Finish_v3_1(message, interp, ExceptionResult_v3_1(interp.command, e))
  /\ calls' = Returned(calls, "Exception")
  /\ UNCHANGED <<version, message, interp>>

(***************************************************************************)
(* v3: AgentMode.execute_command and handle_agent_mode                     *)
(***************************************************************************)

BlockedResult_v3 ==
  [success |-> FALSE, output |-> "", error |-> "Command blocked for security reasons"]

CompletedResult_v3(rc, out, err) ==
  [success |-> (rc = 0), output |-> out, error |-> err, return_code |-> rc]

TimeoutResult_v3 ==
  [success |-> FALSE, output |-> "", error |-> "Command timeout (30s limit)"]

ExceptionResult_v3(e) == [success |-> FALSE, output |-> "", error |-> e]

\* search_triggers of WebSearchManager.enhance_prompt_with_search
search_triggers == <<"latest", "current", "recent", "today", "news", "what is", "tell me about">>

\* the text enhance_prompt_with_search appends when search_web returned results
SearchContext == "\n\n[INTERNET SEARCH RESULTS]:\n1. title\n   snippet...\n"

\* WebSearchManager.enhance_prompt_with_search(prompt, True); found: whether
\* search_web returned any result
enhance_prompt_with_search(prompt, found) ==
  IF (\E k \in 1..Len(search_triggers) : Contains(Lower(prompt), search_triggers[k])) /\ found
    THEN prompt \o SearchContext
    ELSE prompt

\* the /cmd and /terminal prefix test of handle_agent_mode, on the raw text
ParseCommand_v3(msg) ==
  IF StartsWith(msg, "/cmd ") \/ StartsWith(msg, "/terminal ")
    THEN [some |-> TRUE, command |-> AfterFirstSpace(msg), interpretation |-> ""]
    ELSE NoCommand

\* the response text handle_agent_mode builds for a command result
CommandResponse_v3(command, res) ==
  "**Command:** '" \o command \o "'\n\n"
  \o (IF res.success
        THEN "**Output:**\n'''\n" \o res.output \o "\n'''"
             \o (IF res.error # "" THEN "\n\n**Stderr:**\n'''\n" \o res.error \o "\n'''" ELSE "")
        ELSE "**Error:**\n'''\n" \o res.error \o "\n'''")

\* the rest of handle_agent_mode once execute_command has returned res
Finish_v3(msg, command, res) ==
  LET response == CommandResponse_v3(command, res)
  IN /\ result' = res
     /\ emitted' = <<[event |-> "message_response", response |-> response,
                      model |-> "agent-mode", is_command_result |-> TRUE,
                      command_success |-> res.success]>>
     /\ stored' = <<[role |-> "user", content |-> msg],
                    [role |-> "assistant", content |-> response]>>
     /\ pc' = "done"

\* handle_agent_mode(session_id, message, data), up to its return or to the point
\* where execute_command is inside subprocess.run; found and reply are the
\* outcomes of search_web and send_to_ollama
handle_agent_mode ==
  \E msg \in {message} : \E in \in {ParseCommand_v3(msg)} :
     /\ pc = "received" /\ version = "v3"
     /\ UNCHANGED tunnel_vars
     /\ UNCHANGED <<version, message>>
     /\ interp' = in
     /\ IF in.some
          THEN IF in.command = ""
                 THEN /\ calls' = <<>>
                      /\ result' = <<>>
                      /\ emitted' = <<[event |-> "message_response",
                                       response |-> "Please provide a command to execute. Example: /cmd ls -la",
                                       model |-> "agent-mode", is_command_result |-> FALSE]>>
                      /\ stored' = <<>>
                      /\ pc' = "done"
               ELSE IF ~is_safe_command_v3(in.command)
                 THEN /\ calls' = <<Call("_is_safe_command", in.command, "False")>>
                      /\ Finish_v3(msg, in.command, BlockedResult_v3)
               ELSE /\ calls' = <<Call("_is_safe_command", in.command, "True"),
                                  Call("subprocess.run", in.command, "pending")>>
                    /\ pc' = "running"
                    /\ result' = <<>>
                    /\ emitted' = <<>>
                    /\ stored' = <<>>
          ELSE \E found \in BOOLEAN, reply \in OllamaReplies :
                 /\ calls' = <<Call("send_to_ollama", enhance_prompt_with_search(msg, found), reply)>>
                 /\ result' = <<>>
                 /\ emitted' = <<[event |-> "message_response", response |-> reply,
                                  model |-> "agent-mode", is_command_result |-> FALSE]>>
                 /\ stored' = <<[role |-> "user", content |-> msg],
                                [role |-> "assistant", content |-> reply]>>
                 /\ pc' = "done"

subprocess_completes_v3(rc, out, err) ==
  /\ pc = "running" /\ version = "v3"
  /\ UNCHANGED tunnel_vars
  /\ Finish_v3(message, interp.command, CompletedResult_v3(rc, out, err))
  /\ calls' = Returned(calls, "CompletedProcess")
  /\ UNCHANGED <<version, message, interp>>

subprocess_timeout_v3 ==
  /\ pc = "running" /\ version = "v3"
  /\ UNCHANGED tunnel_vars
  /\ Finish_v3(message, interp.command, TimeoutResult_v3)
  /\ calls' = Returned(calls, "TimeoutExpired")
  /\ UNCHANGED <<version, message, interp>>

subprocess_raises_v3(e) ==
  /\ pc = "running" /\ version = "v3"
  /\ UNCHANGED tunnel_vars
  /\ Finish_v3(message, interp.command, ExceptionResult_v3(e))
  /\ calls' = Returned(calls, "Exception")
  /\ UNCHANGED <<version, message, interp>>

(***************************************************************************)
(* v3.2: AgentCommandInterpreter.execute_command and handle_agent_command  *)
(***************************************************************************)

CompletedResult_v3_2(command, rc, out, err) ==
  [command |-> command, stdout |-> out, stderr |-> err, returncode |-> rc,
   success |-> (rc = 0)]

TimeoutResult_v3_2(command) ==
  [command |-> command, stdout |-> "", stderr |-> "Command timed out after 30 seconds",
   returncode |-> -1, success |-> FALSE]

ExceptionResult_v3_2(command, e) ==
  [command |-> command, stdout |-> "", stderr |-> "Error executing command: " \o e,
   returncode |-> -1, success |-> FALSE]

\* "\n".join of the first five rule descriptions ("*" stands for the bullet
\* character of the source)
RECURSIVE HelpLines_v3_2(_)
HelpLines_v3_2(k) ==
  IF k > 5 THEN ""
  ELSE (IF k > 1 THEN "\n" ELSE "") \o "* " \o COMMAND_PATTERNS_v3_2[k].description
       \o HelpLines_v3_2(k + 1)

HelpMessage_v3_2(user_input) ==
  "I didn't understand '" \o user_input \o "'. Try commands like:\n" \o HelpLines_v3_2(1)

\* the rest of handle_agent_command once execute_command has returned res
Finish_v3_2(res) ==
  LET output == (IF res.stdout # "" THEN "Output:\n" \o res.stdout \o "\n" ELSE "")
                \o (IF res.stderr # "" THEN "Errors:\n" \o res.stderr \o "\n" ELSE "")
  IN /\ result' = res
     /\ emitted' = Append(emitted, [event |-> "agent_response", command |-> res.command,
                                    output |-> output, success |-> res.success,
                                    returncode |-> res.returncode])
     /\ pc' = "done"

\* handle_agent_command(data) with data['message'] = message, up to its return or
\* to the point where execute_command is inside subprocess.run
handle_agent_command ==
  \E msg \in {message} : \E user_input \in {Strip(msg)} :
  \E in \in {interpret_command_v3_2(user_input)} :
     /\ pc = "received" /\ version = "v3.2"
     /\ UNCHANGED tunnel_vars
     /\ UNCHANGED <<version, message>>
     /\ stored' = <<>>
     /\ result' = <<>>
     /\ IF user_input = ""
          THEN /\ interp' = NoCommand
               /\ calls' = <<>>
               /\ emitted' = <<[event |-> "agent_error", message |-> "Empty command received"]>>
               /\ pc' = "done"
          ELSE /\ interp' = in
               /\ IF HasCommand(in)
                    THEN /\ calls' = <<Call("subprocess.run", in.command, "pending")>>
                         /\ emitted' = <<[event |-> "agent_status",
                                          message |-> "Executing: " \o in.command]>>
                         /\ pc' = "running"
                    ELSE /\ calls' = <<>>
                         /\ emitted' = <<[event |-> "agent_response", command |-> user_input,
                                          output |-> HelpMessage_v3_2(user_input),
                                          success |-> FALSE, returncode |-> -1]>>
                         /\ pc' = "done"

subprocess_completes_v3_2(rc, out, err) ==
  /\ pc = "running" /\ version = "v3.2"
  /\ UNCHANGED tunnel_vars
  /\ Finish_v3_2(CompletedResult_v3_2(interp.command, rc, out, err))
  /\ calls' = Returned(calls, "CompletedProcess")
  /\ UNCHANGED <<version, message, interp, stored>>

subprocess_timeout_v3_2 ==
  /\ pc = "running" /\ version = "v3.2"
  /\ UNCHANGED tunnel_vars
  /\ Finish_v3_2(TimeoutResult_v3_2(interp.command))
  /\ calls' = Returned(calls, "TimeoutExpired")
  /\ UNCHANGED <<version, message, interp, stored>>

subprocess_raises_v3_2(e) ==
  /\ pc = "running" /\ version = "v3.2"
  /\ UNCHANGED tunnel_vars
  /\ Finish_v3_2(ExceptionResult_v3_2(interp.command, e))
  /\ calls' = Returned(calls, "Exception")
  /\ UNCHANGED <<version, message, interp, stored>>

(***************************************************************************)
(* TunnelManager: the provider table, tunnel processes and their output    *)
(***************************************************************************)

\* the most processes launched in one behaviour
MaxProcs == 2

\* the most lines the tunnel processes write, all together, in one behaviour
MaxLines == 2

\* the lines a process of the provider may write, to either stream
OutputLines(provider) ==
  IF provider = "cloudflare"
    THEN {"Starting tunnel\n",
          "|  https://one-a.trycloudflare.com  |\n",
          "https://two_b.trycloudflare.com\n"}
    ELSE {"url=https://n1.ngrok-free.app\n"}

Streams == {"stdout", "stderr"}

\* re.search(url_pattern, line) for each line a process of the provider may
\* write, computed once
url_search ==
  [provider \in ProviderIds |->
     [line \in OutputLines(provider) |->
        Search(Config(provider).url_pattern, line, FALSE)]]

\* a dict kept as the sequence of its items, in insertion order
DictHas(d, key) == \E k \in 1..Len(d) : d[k].provider = key

DictGet(d, key) == d[CHOOSE k \in 1..Len(d) : d[k].provider = key].url

\* d[key] = url: a present key keeps its place, a new key goes last
DictSet(d, key, url) ==
  IF DictHas(d, key)
    THEN [k \in 1..Len(d) |-> IF d[k].provider = key THEN [provider |-> key, url |-> url] ELSE d[k]]
    ELSE Append(d, [provider |-> key, url |-> url])

\* del d[key]
DictDel(d, key) ==
  LET Keep(item) == item.provider # key IN SelectSeq(d, Keep)

\* `provider in TUNNEL_PROCESSES` (a handle of 0 stands for no entry)
Registered(provider) == provider \in ProviderIds /\ TUNNEL_PROCESSES[provider] # 0

\* subprocess.Popen(config['command'], stdout=PIPE, stderr=PIPE, text=True)
\* succeeded, the handle is stored in TUNNEL_PROCESSES and the task that reads
\* the process's stdout starts
Popen(provider) ==
  /\ processes' = Append(processes, [provider |-> provider, alive |-> TRUE,
                                     stdout |-> <<>>, stderr |-> <<>>, written |-> 0])
  /\ TUNNEL_PROCESSES' = [TUNNEL_PROCESSES EXCEPT ![provider] = Len(processes) + 1]
  /\ monitors' = Append(monitors, [pc |-> "readline", output |-> "", url |-> ""])

\* the number of lines the first n processes have written
RECURSIVE Written(_)
Written(n) == IF n = 0 THEN 0 ELSE processes[n].written + Written(n - 1)

\* a running tunnel process writes a line to its stdout or to its stderr
process_writes(h, stream, line) ==
  /\ h \in 1..Len(processes)
  /\ processes[h].alive /\ Written(Len(processes)) < MaxLines
  /\ line \in OutputLines(processes[h].provider)
  /\ processes' = [processes EXCEPT ![h] =
       [@ EXCEPT !.written = @ + 1,
                 !.stdout = IF stream = "stdout" THEN Append(@, line) ELSE @,
                 !.stderr = IF stream = "stderr" THEN Append(@, line) ELSE @]]
  /\ UNCHANGED <<version, agent_vars, boot, starting, TUNNEL_PROCESSES, ACTIVE_TUNNELS,
                 monitors, tunnel_urls, tunnel_updates>>

\* a running tunnel process exits on its own
process_exits(h) ==
  /\ h \in 1..Len(processes)
  /\ processes[h].alive
  /\ processes' = [processes EXCEPT ![h].alive = FALSE]
  /\ UNCHANGED <<version, agent_vars, boot, starting, TUNNEL_PROCESSES, ACTIVE_TUNNELS,
                 monitors, tunnel_urls, tunnel_updates>>

\* process.stdout.readline() of the task reading process h returns: the next
\* line, or '' at end of file once the process is gone and its pipe is drained
Readline(h, atEof) ==
  /\ h \in 1..Len(monitors)
  /\ monitors[h].pc = "readline"
  /\ IF processes[h].stdout # <<>>
       THEN /\ monitors' = [monitors EXCEPT ![h] =
                 [pc |-> "match", output |-> Head(processes[h].stdout), url |-> @.url]]
            /\ processes' = [processes EXCEPT ![h].stdout = Tail(@)]
       ELSE /\ ~processes[h].alive
            /\ monitors' = [monitors EXCEPT ![h] = [pc |-> atEof, output |-> "", url |-> @.url]]
            /\ UNCHANGED processes
  /\ UNCHANGED <<version, agent_vars, boot, starting, TUNNEL_PROCESSES, ACTIVE_TUNNELS,
                 tunnel_urls, tunnel_updates>>

(***************************************************************************)
(* v3 and v3.1: TunnelManager.start_all_tunnels, start_tunnel,             *)
(* _monitor_tunnel, _save_tunnel_url, get_active_tunnels; v3: stop_tunnel  *)
(***************************************************************************)

\* start_all_tunnels as it would be if the exception of Popen left
\* start_tunnel: the loop is abandoned at the first launch that fails
start_all_tunnels_Uncaught(launched) ==
  /\ version \in {"v3", "v3.1"}
  /\ boot <= Len(TUNNEL_PROVIDERS)
  /\ LET provider == TUNNEL_PROVIDERS[boot].id
     IN IF TUNNEL_PROVIDERS[boot].enabled /\ ~Registered(provider) /\ launched
          THEN boot' = boot + 1 /\ Popen(provider)
          ELSE /\ boot' = Len(TUNNEL_PROVIDERS) + 1
               /\ UNCHANGED <<processes, TUNNEL_PROCESSES, monitors>>
  /\ UNCHANGED <<version, agent_vars, starting, ACTIVE_TUNNELS, tunnel_urls, tunnel_updates>>

\* one turn of the loop of start_all_tunnels, which runs before the server
\* accepts requests: start_tunnel(provider) for the next enabled provider
start_all_tunnels(launched) ==
  /\ version \in {"v3", "v3.1"}
  /\ boot <= Len(TUNNEL_PROVIDERS)
  /\ boot' = boot + 1
  /\ LET provider == TUNNEL_PROVIDERS[boot].id
     IN IF TUNNEL_PROVIDERS[boot].enabled /\ ~Registered(provider) /\ launched
          THEN Popen(provider)
          ELSE UNCHANGED <<processes, TUNNEL_PROCESSES, monitors>>
  /\ UNCHANGED <<version, agent_vars, starting, ACTIVE_TUNNELS, tunnel_urls, tunnel_updates>>

\* start_tunnel(provider) gets to its try block and calls Popen: the provider
\* has no handle in TUNNEL_PROCESSES and is configured
ReachesPopen(provider) == ~Registered(provider) /\ provider \in ProviderIds

\* start_tunnel(provider) called while the server runs, up to its try block:
\* it returns at once for a provider that has a handle or is not configured
start_tunnel(provider) ==
  /\ version \in {"v3", "v3.1"}
  /\ boot > Len(TUNNEL_PROVIDERS)
  /\ Len(processes) + Len(starting) < MaxProcs
  /\ starting' = IF ReachesPopen(provider) THEN Append(starting, provider) ELSE starting
  /\ UNCHANGED <<version, agent_vars, boot, TUNNEL_PROCESSES, ACTIVE_TUNNELS, processes,
                 monitors, tunnel_urls, tunnel_updates>>

\* the try block of a start_tunnel call: Popen, the handle stored and the
\* monitoring thread started, or the exception of Popen logged
start_tunnel_popen(k, launched) ==
  /\ k \in 1..Len(starting)
  /\ starting' = SubSeq(starting, 1, k - 1) \o SubSeq(starting, k + 1, Len(starting))
  /\ IF launched
       THEN Popen(starting[k])
       ELSE UNCHANGED <<processes, TUNNEL_PROCESSES, monitors>>
  /\ UNCHANGED <<version, agent_vars, boot, ACTIVE_TUNNELS, tunnel_urls, tunnel_updates>>

\* _monitor_tunnel as it would be without the break at end of file: the task
\* never leaves its loop
monitor_readline_NoBreak(h) ==
  /\ version \in {"v3", "v3.1"}
  /\ h \in 1..Len(monitors)
  /\ processes[h].stdout # <<>>
  /\ Readline(h, "ended")

\* _monitor_tunnel: output = process.stdout.readline(), and the break at end
\* of file
monitor_readline(h) ==
  /\ version \in {"v3", "v3.1"}
  /\ Readline(h, "ended")

\* _monitor_tunnel as it would be if a matching line were read and dropped
monitor_match_Dropping(h) ==
  /\ h \in 1..Len(monitors)
  /\ version \in {"v3", "v3.1"}
  /\ monitors[h].pc = "match"
  /\ monitors' = [monitors EXCEPT ![h].pc = "readline"]
  /\ UNCHANGED <<version, agent_vars, boot, starting, TUNNEL_PROCESSES, ACTIVE_TUNNELS,
                 processes, tunnel_urls, tunnel_updates>>

\* _monitor_tunnel: the line is searched for the provider's URL pattern and a
\* match is assigned to ACTIVE_TUNNELS[provider]
monitor_match(h) ==
  /\ version \in {"v3", "v3.1"}
  /\ h \in 1..Len(monitors)
  /\ monitors[h].pc = "match"
  /\ LET provider == processes[h].provider
         output == monitors[h].output
     IN \E url_match \in {url_search[provider][output]} :
          IF url_match.ok
            THEN \E url \in {MatchText(output, url_match)} :
                   /\ ACTIVE_TUNNELS' = DictSet(ACTIVE_TUNNELS, provider, url)
                   /\ monitors' = [monitors EXCEPT ![h] = [@ EXCEPT !.pc = "save", !.url = url]]
            ELSE /\ monitors' = [monitors EXCEPT ![h].pc = "readline"]
                 /\ UNCHANGED ACTIVE_TUNNELS
  /\ UNCHANGED <<version, agent_vars, boot, starting, TUNNEL_PROCESSES, processes,
                 tunnel_urls, tunnel_updates>>

\* _monitor_tunnel: _save_tunnel_url(provider, url) and the 'tunnel_update'
\* event, then the next turn of the loop
monitor_save(h) ==
  /\ version \in {"v3", "v3.1"}
  /\ h \in 1..Len(monitors)
  /\ monitors[h].pc = "save"
  /\ LET row == [provider |-> processes[h].provider, url |-> monitors[h].url,
                 status |-> "active"]
     IN /\ tunnel_urls' = Append(tunnel_urls, row)
        /\ tunnel_updates' = Append(tunnel_updates, row)
  /\ monitors' = [monitors EXCEPT ![h].pc = "readline"]
  /\ UNCHANGED <<version, agent_vars, boot, starting, TUNNEL_PROCESSES, ACTIVE_TUNNELS,
                 processes>>

\* _monitor_tunnel: _save_tunnel_url(provider, url) raises a sqlite3 error
\* (database locked, disk full); the exception leaves the loop, is logged by
\* the except clause around it, and the thread ends
monitor_save_raises(h) ==
  /\ version \in {"v3", "v3.1"}
  /\ h \in 1..Len(monitors)
  /\ monitors[h].pc = "save"
  /\ monitors' = [monitors EXCEPT ![h].pc = "raised"]
  /\ UNCHANGED <<version, agent_vars, boot, starting, TUNNEL_PROCESSES, ACTIVE_TUNNELS,
                 processes, tunnel_urls, tunnel_updates>>

\* what stop_tunnel(provider) of v3 leaves in the two dicts tp (TUNNEL_PROCESSES)
\* and at (ACTIVE_TUNNELS); it raises nothing
StopTunnel(tp, at, provider) ==
  IF provider \in ProviderIds /\ tp[provider] # 0
    THEN [TUNNEL_PROCESSES |-> [tp EXCEPT ![provider] = 0],
          ACTIVE_TUNNELS |-> DictDel(at, provider)]
    ELSE [TUNNEL_PROCESSES |-> tp, ACTIVE_TUNNELS |-> at]

\* stop_tunnel(provider) of v3: the process is terminated and the provider's
\* entries are deleted
stop_tunnel(provider) ==
  /\ version = "v3"
  /\ boot > Len(TUNNEL_PROVIDERS)
  /\ processes' = IF Registered(provider)
                    THEN [processes EXCEPT ![TUNNEL_PROCESSES[provider]].alive = FALSE]
                    ELSE processes
  /\ TUNNEL_PROCESSES' = StopTunnel(TUNNEL_PROCESSES, ACTIVE_TUNNELS, provider).TUNNEL_PROCESSES
  /\ ACTIVE_TUNNELS' = StopTunnel(TUNNEL_PROCESSES, ACTIVE_TUNNELS, provider).ACTIVE_TUNNELS
  /\ UNCHANGED <<version, agent_vars, boot, starting, monitors, tunnel_urls, tunnel_updates>>

\* get_active_tunnels() of v3 and v3.1: ACTIVE_TUNNELS.copy(), the items in
\* the dict's order
get_active_tunnels_v3_1 == ACTIVE_TUNNELS

(***************************************************************************)
(* v3.2: initialize_app.start_tunnels, TunnelManager.start_tunnel,         *)
(* store_tunnel_url and get_active_tunnels                                 *)
(***************************************************************************)

\* start_tunnel(provider_name) of v3.2 up to the loop over process.stdout:
\* Popen and the handle stored, or the exception of Popen logged
StartTunnel_v3_2(provider_name, launched) ==
  IF provider_name \in ProviderIds /\ launched
    THEN Popen(provider_name)
    ELSE UNCHANGED <<processes, TUNNEL_PROCESSES, monitors>>

\* one turn of the loop of start_tunnels: a thread that runs
\* start_tunnel(provider_name) for the next enabled provider
start_tunnels(launched) ==
  /\ version = "v3.2"
  /\ boot <= Len(TUNNEL_PROVIDERS)
  /\ boot' = boot + 1
  /\ IF TUNNEL_PROVIDERS[boot].enabled
       THEN StartTunnel_v3_2(TUNNEL_PROVIDERS[boot].id, launched)
       ELSE UNCHANGED <<processes, TUNNEL_PROCESSES, monitors>>
  /\ UNCHANGED <<version, agent_vars, starting, ACTIVE_TUNNELS, tunnel_urls, tunnel_updates>>

\* a further call of start_tunnel(provider_name)
start_tunnel_v3_2(provider_name, launched) ==
  /\ version = "v3.2"
  /\ boot > Len(TUNNEL_PROVIDERS)
  /\ Len(processes) < MaxProcs
  /\ StartTunnel_v3_2(provider_name, launched)
  /\ UNCHANGED <<version, agent_vars, boot, starting, ACTIVE_TUNNELS, tunnel_urls,
                 tunnel_updates>>

\* start_tunnel: the next line of `for line in process.stdout`, and the
\* return of None when the stream ends
start_tunnel_readline(h) ==
  /\ version = "v3.2"
  /\ Readline(h, "returned")

\* start_tunnel: a line that is not blank is searched for the provider's URL
\* pattern and a match is assigned to ACTIVE_TUNNELS[provider_name]
start_tunnel_match(h) ==
  /\ version = "v3.2"
  /\ h \in 1..Len(monitors)
  /\ monitors[h].pc = "match"
  /\ LET provider_name == processes[h].provider
         line == monitors[h].output
     IN \E url_match \in {url_search[provider_name][line]} :
          IF Strip(line) # "" /\ url_match.ok
            THEN \E url \in {MatchText(line, url_match)} :
                   /\ ACTIVE_TUNNELS' = DictSet(ACTIVE_TUNNELS, provider_name, url)
                   /\ monitors' = [monitors EXCEPT ![h] = [@ EXCEPT !.pc = "save", !.url = url]]
            ELSE /\ monitors' = [monitors EXCEPT ![h].pc = "readline"]
                 /\ UNCHANGED ACTIVE_TUNNELS
  /\ UNCHANGED <<version, agent_vars, boot, starting, TUNNEL_PROCESSES, processes,
                 tunnel_urls, tunnel_updates>>

\* store_tunnel_url as it would be if INSERT OR REPLACE met a unique provider
\* column: the provider's earlier rows are replaced
start_tunnel_store_Replacing(h) ==
  /\ version = "v3.2"
  /\ h \in 1..Len(monitors)
  /\ monitors[h].pc = "save"
  /\ LET Other(row) == row.provider # processes[h].provider
     IN tunnel_urls' = Append(SelectSeq(tunnel_urls, Other),
                              [provider |-> processes[h].provider,
                               url |-> monitors[h].url, status |-> "active"])
  /\ monitors' = [monitors EXCEPT ![h].pc = "returned"]
  /\ UNCHANGED <<version, agent_vars, boot, starting, TUNNEL_PROCESSES, ACTIVE_TUNNELS,
                 processes, tunnel_updates>>

\* start_tunnel: store_tunnel_url(provider_name, url) and return url; the
\* table has no unique column but its autoincrement id, so INSERT OR REPLACE
\* adds a row
start_tunnel_store(h) ==
  /\ version = "v3.2"
  /\ h \in 1..Len(monitors)
  /\ monitors[h].pc = "save"
  /\ tunnel_urls' = Append(tunnel_urls, [provider |-> processes[h].provider,
                                         url |-> monitors[h].url, status |-> "active"])
  /\ monitors' = [monitors EXCEPT ![h].pc = "returned"]
  /\ UNCHANGED <<version, agent_vars, boot, starting, TUNNEL_PROCESSES, ACTIVE_TUNNELS,
                 processes, tunnel_updates>>

\* start_tunnel: the sqlite3 error of store_tunnel_url is caught and logged
\* inside it, and start_tunnel returns url
start_tunnel_store_raises(h) ==
  /\ version = "v3.2"
  /\ h \in 1..Len(monitors)
  /\ monitors[h].pc = "save"
  /\ monitors' = [monitors EXCEPT ![h].pc = "returned"]
  /\ UNCHANGED <<version, agent_vars, boot, starting, TUNNEL_PROCESSES, ACTIVE_TUNNELS,
                 processes, tunnel_urls, tunnel_updates>>

\* what get_active_tunnels of v3.2 reads outside the module's state: the
\* lines of /tmp/serveo.log if the file exists, whether port 5000 of the
\* pod's address accepts a connection, and the exit status of
\* `pgrep -f localhost.run`
Environments ==
  [has_log : BOOLEAN,
   log : {<<"Forwarding HTTP traffic from https://xyz.serveo.net", "">>},
   port_open : BOOLEAN,
   pgrep : {0, 1}]

\* sorted(tunnels, key=lambda x: x['priority']): a stable sort
SortedByPriority(tunnels) ==
  LET Rank(i) == 1 + Cardinality({j \in 1..Len(tunnels) :
                        \/ tunnels[j].priority < tunnels[i].priority
                        \/ tunnels[j].priority = tunnels[i].priority /\ j < i})
  IN [k \in 1..Len(tunnels) |-> tunnels[CHOOSE i \in 1..Len(tunnels) : Rank(i) = k]]

\* any(t['url'] == url for t in tunnels)
AnyUrl(tunnels, url) == \E k \in 1..Len(tunnels) : tunnels[k].url = url

\* get_active_tunnels: the entries made from ACTIVE_TUNNELS
FromActive ==
  [k \in 1..Len(ACTIVE_TUNNELS) |->
     [provider |-> ACTIVE_TUNNELS[k].provider,
      name |-> Config(ACTIVE_TUNNELS[k].provider).name,
      url |-> ACTIVE_TUNNELS[k].url,
      priority |-> Config(ACTIVE_TUNNELS[k].provider).priority]]

\* get_active_tunnels: the entry read from /tmp/serveo.log, if any
WithServeo(tunnels, env) ==
  LET hits == {k \in 1..Len(env.log) :
                 Contains(env.log[k], "https://") /\ Contains(env.log[k], "serveo.net")}
      first == CHOOSE k \in hits : \A x \in hits : k <= x
      url_match == Search("https://[\\w-]+\\.serveo\\.net", env.log[first], FALSE)
      serveo_url == MatchText(env.log[first], url_match)
  IN IF env.has_log /\ hits # {} /\ url_match.ok /\ ~AnyUrl(tunnels, serveo_url)
       THEN Append(tunnels, [provider |-> "serveo", name |-> "Serveo.net (Active)",
                             url |-> serveo_url, priority |-> 1])
       ELSE tunnels

\* get_active_tunnels: the entry for direct access to the pod
WithDirect(tunnels, env) ==
  LET direct_url == "http://213.173.99.7:5000"
  IN IF env.port_open /\ ~AnyUrl(tunnels, direct_url)
       THEN Append(tunnels, [provider |-> "direct", name |-> "Direct RunPod Access",
                             url |-> direct_url, priority |-> 5])
       ELSE tunnels

\* get_active_tunnels: the entry for a running localhost.run client
WithLocalhostRun(tunnels, env) ==
  IF env.pgrep = 0
    THEN Append(tunnels, [provider |-> "localhost_run", name |-> "LocalHost.run (Active)",
                          url |-> "Localhost.run tunnel active - check logs",
                          priority |-> 2])
    ELSE tunnels

\* get_active_tunnels() of v3.2
get_active_tunnels_v3_2(env) ==
  SortedByPriority(WithLocalhostRun(WithDirect(WithServeo(FromActive, env), env), env))

(***************************************************************************)
(* Specification                                                           *)
(***************************************************************************)

Next ==
  \/ \E v \in Versions, msg \in Messages : receive(v, msg)
  \/ handle_agent_session
  \/ \E rc \in ReturnCodes, out \in StdoutTexts, err \in StderrTexts :
       subprocess_completes_v3_1(rc, out, err)
  \/ subprocess_timeout_v3_1
  \/ \E e \in ExceptionTexts : subprocess_raises_v3_1(e)
  \/ handle_agent_mode
  \/ \E rc \in ReturnCodes, out \in StdoutTexts, err \in StderrTexts :
       subprocess_completes_v3(rc, out, err)
  \/ subprocess_timeout_v3
  \/ \E e \in ExceptionTexts : subprocess_raises_v3(e)
  \/ handle_agent_command
  \/ \E rc \in ReturnCodes, out \in StdoutTexts, err \in StderrTexts :
       subprocess_completes_v3_2(rc, out, err)
  \/ subprocess_timeout_v3_2
  \/ \E e \in ExceptionTexts : subprocess_raises_v3_2(e)

Spec == Init /\ [][Next]_vars

\* the application of one version has been loaded and starts its tunnels
TunnelInit ==
  /\ version \in Versions
  /\ AgentIdle
  /\ TunnelsIdle

TunnelNext ==
  \/ \E launched \in BOOLEAN : start_all_tunnels(launched)
  \/ \E provider \in ProviderArgs : start_tunnel(provider)
  \/ \E k \in 1..MaxProcs, launched \in BOOLEAN : start_tunnel_popen(k, launched)
  \/ \E h \in 1..MaxProcs : monitor_readline(h)
  \/ \E h \in 1..MaxProcs : monitor_match(h)
  \/ \E h \in 1..MaxProcs : monitor_save(h)
  \/ \E provider \in ProviderArgs : stop_tunnel(provider)
  \/ \E launched \in BOOLEAN : start_tunnels(launched)
  \/ \E provider \in ProviderArgs, launched \in BOOLEAN : start_tunnel_v3_2(provider, launched)
  \/ \E h \in 1..MaxProcs : start_tunnel_readline(h)
  \/ \E h \in 1..MaxProcs : start_tunnel_match(h)
  \/ \E h \in 1..MaxProcs : start_tunnel_store(h)
  \/ \E h \in 1..MaxProcs, stream \in Streams, line \in OutputLines("cloudflare") \cup OutputLines("ngrok") :
       process_writes(h, stream, line)
  \/ \E h \in 1..MaxProcs : process_exits(h)

TunnelSpec == TunnelInit /\ [][TunnelNext]_vars

\* the start-up loop and every task that reads a process's stdout are
\* threads of the application, which the scheduler keeps running; the tunnel
\* processes and the callers of start_tunnel and stop_tunnel owe nothing
TunnelFairness ==
  /\ WF_vars(\E launched \in BOOLEAN : start_all_tunnels(launched))
  /\ WF_vars(\E launched \in BOOLEAN : start_tunnels(launched))
  /\ \A h \in 1..MaxProcs :
       /\ WF_vars(monitor_readline(h))
       /\ WF_vars(monitor_match(h))
       /\ WF_vars(monitor_save(h))
       /\ WF_vars(start_tunnel_readline(h))
       /\ WF_vars(start_tunnel_match(h))
       /\ WF_vars(start_tunnel_store(h))

FairTunnelSpec == TunnelSpec /\ TunnelFairness

\* the tunnel manager with a tunnels database that may fail
StorageFaultNext ==
  \/ TunnelNext
  \/ \E h \in 1..MaxProcs : monitor_save_raises(h)
  \/ \E h \in 1..MaxProcs : start_tunnel_store_raises(h)

StorageFaultSpec == TunnelInit /\ [][StorageFaultNext]_vars

(***************************************************************************)
(* Properties                                                              *)
(***************************************************************************)

\* the handler of the turn has got past interpreting the user text
Handled == pc \in {"running", "done"}

\* the positions in the call log of the calls to fn
CallsTo(fn) == {k \in 1..Len(calls) : calls[k].fn = fn}

\* the denylist of the version's _is_safe_command
DenylistOf(v) == IF v = "v3" THEN dangerous_patterns_v3 ELSE dangerous_patterns_v3_1

\* the normalized user text: user_message.lower().strip()
Normalized == Strip(Lower(message))

\* the turn's text begins, once normalized, with an explicit-command marker
HasMarker == StartsWithAny(Normalized, DirectMarkers)

\* C1: in every version, a subprocess.run call on a command is preceded, in
\* the same turn, by a _is_safe_command call on that very command that
\* returned True.
C1_FilterPrecedesSubprocess ==
  \A k \in CallsTo("subprocess.run") :
    \E j \in 1..(k - 1) : calls[j] = Call("_is_safe_command", calls[k].arg, "True")

\* C2: when execute_command (v3, v3.1) is given a command that some denylist
\* pattern matches, the filter call returned False, execute_command has
\* returned, and subprocess.run was never called.
C2_DenylistedNeverRuns ==
  (/\ version \in {"v3", "v3.1"} /\ Handled
   /\ interp.some /\ interp.command # ""
   /\ MatchesDenylist(DenylistOf(version), interp.command))
  => /\ calls = <<Call("_is_safe_command", interp.command, "False")>>
     /\ CallsTo("subprocess.run") = {}
     /\ pc = "done" /\ result # <<>>

C2_Witness ==
  /\ version = "v3.1" /\ pc = "done"
  /\ MatchesDenylist(dangerous_patterns_v3_1, interp.command)
  /\ interp.command # Lower(interp.command)
  /\ calls = <<Call("_is_safe_command", interp.command, "False")>>

\* one command of each destructive kind the filter is to reject
DestructiveCommands ==
  {"rm -rf /", "sudo shutdown -h now", "Reboot", "halt", "mkfs.ext4 /dev/sdb",
   "dd of=/dev/sda", "dd if=/dev/zero of=/dev/sda", ":(){ :|:& };:"}

\* C3: the filter of v3 and of v3.1 returns False for a command of each of
\* the five destructive kinds: rm -rf /, shutdown / reboot / halt, mkfs,
\* dd ... of=/dev/<device>, and the fork bomb :(){ :|:& };:.
C3_FiveKindsRejected ==
  (version \in {"v3", "v3.1"} /\ Handled /\ interp.command \in DestructiveCommands)
  => calls[1] = Call("_is_safe_command", interp.command, "False")

\* C4: when the filter rejects the command of a turn, the turn is over with a
\* result of success False, empty output and the one fixed error text, the
\* emitted response reports that failure with that text, and subprocess.run
\* was not called.
C4_BlockedResult ==
  (\E k \in CallsTo("_is_safe_command") : calls[k].ret = "False")
  => /\ pc = "done"
     /\ result.success = FALSE
     /\ result.output = ""
     /\ result.error = "Command blocked for security reasons"
     /\ CallsTo("subprocess.run") = {}
     /\ Len(emitted) = 1
     /\ emitted[1].is_command_result /\ ~emitted[1].command_success
     /\ Contains(emitted[1].response, "Command blocked for security reasons")

C4_Witness ==
  /\ version = "v3.1" /\ pc = "done"
  /\ message = "/cmd rm -rf /" /\ interp.command = "rm -rf /"
  /\ calls = <<Call("_is_safe_command", "rm -rf /", "False")>>

\* the rule table of the version's interpret_command
RulesOf(v) == IF v = "v3.2" THEN COMMAND_PATTERNS_v3_2 ELSE COMMAND_PATTERNS_v3_1

\* some pattern of rule r is found in text
RuleMatches(rules, r, text) ==
  \E k \in 1..Len(rules[r].patterns) : Search(rules[r].patterns[k], text, FALSE).ok

\* the rules found in text
MatchingRules(rules, text) == {r \in 1..Len(rules) : RuleMatches(rules, r, text)}

\* the least element of a non-empty set of numbers
Least(S) == CHOOSE r \in S : \A j \in S : r <= j

\* the first pattern of rule r found in text
EarliestPattern(rules, r, text) ==
  Least({k \in 1..Len(rules[r].patterns) : Search(rules[r].patterns[k], text, FALSE).ok})

\* the rules were consulted for the turn's text and at least one matched
RuleTurn ==
  /\ version \in {"v3.1", "v3.2"} /\ Handled
  /\ version = "v3.1" => ~HasMarker
  /\ MatchingRules(RulesOf(version), Normalized) # {}

\* C5: when one or more rules match the normalized text, the command and the
\* description returned are those of the earliest matching rule in list
\* order, filled in from the earliest matching pattern of that rule.
C5_EarliestRuleWins ==
  RuleTurn =>
    LET rules == RulesOf(version)
        r == Least(MatchingRules(rules, Normalized))
        k == EarliestPattern(rules, r, Normalized)
        m == Search(rules[r].patterns[k], Normalized, FALSE)
    IN /\ interp.some
       /\ version = "v3.1" =>
            /\ interp.command = Substitute(rules[r].command, Normalized, m, 1)
            /\ interp.interpretation =
                 "Interpreted '" \o message \o "' as: " \o rules[r].description
       /\ version = "v3.2" => interp.command = rules[r].command

C5_Witness ==
  /\ RuleTurn /\ version = "v3.1" /\ pc = "done"
  /\ Cardinality(MatchingRules(COMMAND_PATTERNS_v3_1, Normalized)) >= 2
  /\ interp.command = "python --version"

\* the match that decides a v3.1 turn in which the rules were consulted
DecidingMatch ==
  LET r == Least(MatchingRules(COMMAND_PATTERNS_v3_1, Normalized))
      k == EarliestPattern(COMMAND_PATTERNS_v3_1, r, Normalized)
  IN [rule |-> r, match |-> Search(COMMAND_PATTERNS_v3_1[r].patterns[k], Normalized, FALSE)]

\* C6: the command returned for a matched text is the rule's template with
\* the placeholder {1} replaced by capture group 1 stripped of surrounding
\* whitespace and the rest of the template as it is (no rule has more than
\* one group); a template of a pattern without groups is returned as it is.
C6_TemplateFilled ==
  (RuleTurn /\ version = "v3.1") =>
    LET d == DecidingMatch
        t == COMMAND_PATTERNS_v3_1[d.rule].command
    IN IF d.match.groups = <<>> THEN interp.command = t
       ELSE /\ Len(d.match.groups) = 1
            /\ LET at == CHOOSE i \in 1..Len(t) : HasAt(t, i, "{1}")
               IN interp.command =
                    Slice(t, 1, at - 1) \o Strip(GroupText(Normalized, d.match, 1))
                      \o Slice(t, at + 3, Len(t))

C6_Witness ==
  /\ RuleTurn /\ version = "v3.1" /\ pc = "done"
  /\ DecidingMatch.match.groups # <<>>
  /\ GroupText(Normalized, DecidingMatch.match, 1) # Strip(GroupText(Normalized, DecidingMatch.match, 1))
  /\ interp.command = "mkdir -p "

\* the marker the normalized text begins with
MarkerOf(text) ==
  DirectMarkers[Least({k \in 1..Len(DirectMarkers) : StartsWith(text, DirectMarkers[k])})]

\* C7: for a text that begins, once normalized, with an explicit-command
\* marker, interpret_command of v3.1 returns the text that follows the marker
\* in the user's text, in its own case, with a 'Direct command' description,
\* also when whitespace precedes the marker.
C7_DirectCommandVerbatim ==
  (version = "v3.1" /\ Handled /\ HasMarker) =>
    LET first == LStripAt(message, 1)
        following == Slice(message, first + Len(MarkerOf(Normalized)), Len(message))
    IN interp = [some |-> TRUE, command |-> following,
                 interpretation |-> "Direct command: " \o following]

\* C8: when interpret_command (v3.1, v3.2) produced no command for the turn's
\* text, the turn ends having sent the raw text to the inference service and
\* having emitted the service's reply, and not a failed command result.
C8_NoMatchDelegates ==
  (version \in {"v3.1", "v3.2"} /\ pc = "done" /\ Strip(message) # "" /\ ~interp.some)
  => /\ \E k \in CallsTo("send_to_ollama") :
          calls[k].arg = message /\ emitted[Len(emitted)].response = calls[k].ret
     /\ "success" \notin DOMAIN emitted[Len(emitted)]

StdoutOf(res) == IF "stdout" \in DOMAIN res THEN res.stdout ELSE res.output
StderrOf(res) == IF "stderr" \in DOMAIN res THEN res.stderr ELSE res.error
HasExitStatus(res) == "returncode" \in DOMAIN res \/ "return_code" \in DOMAIN res
ExitStatusOf(res) == IF "returncode" \in DOMAIN res THEN res.returncode ELSE res.return_code

\* C10: in every version, the result of a command whose subprocess.run timed
\* out has success False, empty standard output, an error text that tells of
\* the timeout, and an exit status field holding -1.
C10_TimeoutSentinel ==
  (\E k \in CallsTo("subprocess.run") : calls[k].ret = "TimeoutExpired")
  => /\ result.success = FALSE
     /\ StdoutOf(result) = ""
     /\ Contains(StderrOf(result), "timeout") \/ Contains(StderrOf(result), "timed out")
     /\ HasExitStatus(result)
     /\ ExitStatusOf(result) = -1

\* C11: in every version, when subprocess.run raised something other than a
\* timeout, execute_command returned a result with success False, an exit
\* status field holding the sentinel -1, and an error text that contains the
\* text of the exception.
C11_FailureResult ==
  (\E k \in CallsTo("subprocess.run") : calls[k].ret = "Exception")
  => /\ result # <<>>
     /\ result.success = FALSE
     /\ \E e \in ExceptionTexts : Contains(StderrOf(result), e)
     /\ HasExitStatus(result)
     /\ ExitStatusOf(result) = -1

\* the subprocess.run call of the turn returned a CompletedProcess
RanToCompletion == \E k \in CallsTo("subprocess.run") : calls[k].ret = "CompletedProcess"

\* C12: in every version, the result execute_command returned has success
\* True exactly when subprocess.run returned a completed process whose exit
\* status is 0; blocked, timed-out and failed results have success False.
C12_SuccessIffExitZero ==
  result # <<>> =>
    /\ result.success <=> (RanToCompletion /\ HasExitStatus(result) /\ ExitStatusOf(result) = 0)
    /\ ~RanToCompletion => ~result.success

C12_Witness ==
  /\ version = "v3.1" /\ pc = "done" /\ RanToCompletion
  /\ result.return_code = 127 /\ ~result.success

\* the provider's URL pattern is found in the line
IsUrlLine(provider, line) == url_search[provider][line].ok

\* the task reading process h has recorded a URL and finished recording it
HasRecorded(h) == monitors[h].url # "" /\ monitors[h].pc # "save"

\* C13: within one run of a provider's process, once the task that reads the
\* process's output has recorded a URL for the provider, it never records
\* again: no later matching line changes the URL or causes another update.
C13_FirstUrlRetained ==
  [][\A h \in 1..Len(monitors) :
       HasRecorded(h) => /\ monitors'[h].url = monitors[h].url
                         /\ monitors'[h].pc # "save"]_vars

\* a call of start_tunnel(provider) begins, in the version that runs
StartTunnelCalled(provider) ==
  \/ start_tunnel(provider)
  \/ \E launched \in BOOLEAN : start_tunnel_v3_2(provider, launched)

\* C14: in every version, a call of start_tunnel for a provider whose
\* process is registered and running launches no process, starts no
\* monitoring task and leaves the stored handle and the discovered URL as
\* they are.
C14_StartIsNoOpWhenRunning ==
  [][\A provider \in ProviderIds :
       (/\ Registered(provider)
        /\ processes[TUNNEL_PROCESSES[provider]].alive
        /\ StartTunnelCalled(provider))
       => UNCHANGED <<processes, monitors, TUNNEL_PROCESSES, ACTIVE_TUNNELS>>]_vars

\* stop_tunnel(provider) has returned and no start_tunnel(provider) has begun
\* since
Stopped(provider) ==
  /\ version = "v3"
  /\ ~Registered(provider)
  /\ \E h \in 1..Len(processes) : processes[h].provider = provider
  /\ \A k \in 1..Len(starting) : starting[k] # provider

\* C15: after stop_tunnel(provider) has returned and until the provider is
\* started again, get_active_tunnels does not hold the provider, whatever the
\* provider's monitoring thread does meanwhile.
C15_StoppedNotAdvertised ==
  \A provider \in ProviderIds :
    Stopped(provider) => ~DictHas(get_active_tunnels_v3_1, provider)

\* C16: from every state of v3, stop_tunnel(provider) called twice in
\* succession, also for a provider that has no process, leaves
\* get_active_tunnels without the provider after the first call and after
\* the second.
C16_StopTwice ==
  (version = "v3" /\ boot > Len(TUNNEL_PROVIDERS)) =>
    \A provider \in ProviderArgs :
      LET once == StopTunnel(TUNNEL_PROCESSES, ACTIVE_TUNNELS, provider)
          twice == StopTunnel(once.TUNNEL_PROCESSES, once.ACTIVE_TUNNELS, provider)
      IN ~DictHas(once.ACTIVE_TUNNELS, provider) /\ ~DictHas(twice.ACTIVE_TUNNELS, provider)

\* the entries get_active_tunnels returns, in the order it returns them
ReturnedTunnels(env) ==
  IF version = "v3.2" THEN get_active_tunnels_v3_2(env) ELSE get_active_tunnels_v3_1

\* C17: in every version and every environment, get_active_tunnels returns
\* only configured providers whose URL has been discovered, each with that
\* URL, every such provider exactly once, in ascending order of the
\* configured priority.
C17_ActiveTunnelsByPriority ==
  \A env \in Environments :
    LET got == ReturnedTunnels(env)
        Known(k) == /\ got[k].provider \in ProviderIds
                    /\ DictHas(ACTIVE_TUNNELS, got[k].provider)
                    /\ got[k].url = DictGet(ACTIVE_TUNNELS, got[k].provider)
    IN /\ \A k \in 1..Len(got) : Known(k)
       /\ \A provider \in ProviderIds :
            DictHas(ACTIVE_TUNNELS, provider) =>
              Cardinality({k \in 1..Len(got) : got[k].provider = provider}) = 1
       /\ \A j, k \in 1..Len(got) :
            (j < k /\ Known(j) /\ Known(k)) =>
              Config(got[j].provider).priority <= Config(got[k].provider).priority

\* process h has written to its stdout a line, not yet read, in which the
\* provider's URL pattern is found
UrlLineWaiting(h) ==
  /\ h <= Len(processes)
  /\ \E k \in 1..Len(processes[h].stdout) :
       IsUrlLine(processes[h].provider, processes[h].stdout[k])

\* the URL of the provider of process h is recorded
UrlRecorded(h) == h <= Len(processes) /\ DictHas(ACTIVE_TUNNELS, processes[h].provider)

\* C18: with the start-up loop and the reading tasks scheduled fairly, the
\* start-up loop gets past every configured provider whatever happened to
\* the providers before it, and a matching line that a provider's process
\* has written to its stdout leads to that provider's URL being recorded,
\* whether the other providers' processes failed to launch, exited or stay
\* silent.
C18_ProvidersIsolated ==
  /\ <>(boot > Len(TUNNEL_PROVIDERS))
  /\ \A h \in 1..MaxProcs : UrlLineWaiting(h) ~> UrlRecorded(h)

\* cloudflare failed to launch and has no process; ngrok was launched after
\* it and its URL is recorded
C18_Witness ==
  /\ boot > Len(TUNNEL_PROVIDERS)
  /\ \A h \in 1..Len(processes) : processes[h].provider = "ngrok"
  /\ DictHas(ACTIVE_TUNNELS, "ngrok")

\* the task reading process h is over: it saw the end of the process's
\* stdout, or it returned
ReaderOver(h) == monitors[h].pc \in {"ended", "returned"}

\* C19: a provider whose registered process has exited on its own, the exit
\* having been seen by the task that reads the process's output, is not
\* in get_active_tunnels.
C19_ExitedNotAdvertised ==
  \A provider \in ProviderIds :
    (/\ version \in {"v3", "v3.1"}
     /\ Registered(provider)
     /\ ~processes[TUNNEL_PROCESSES[provider]].alive
     /\ monitors[TUNNEL_PROCESSES[provider]].pc = "ended")
    => ~DictHas(get_active_tunnels_v3_1, provider)

\* process h has written to its stderr a line in which the provider's URL
\* pattern is found
UrlLineOnStderr(h) ==
  \E k \in 1..Len(processes[h].stderr) :
    IsUrlLine(processes[h].provider, processes[h].stderr[k])

\* C20: when the task reading a provider's registered process is over,
\* having handled all the process wrote before it ended, and the process
\* wrote a line with the provider's URL to its stderr, the provider's URL
\* is recorded.
C20_StderrUrlRecorded ==
  \A h \in 1..Len(processes) :
    (/\ TUNNEL_PROCESSES[processes[h].provider] = h
     /\ ~processes[h].alive
     /\ ReaderOver(h)
     /\ processes[h].stdout = <<>>
     /\ UrlLineOnStderr(h))
    => DictHas(ACTIVE_TUNNELS, processes[h].provider)

\* the record of the URL that the task reading process h has discovered
DiscoveryRecord(h) ==
  [provider |-> processes[h].provider, url |-> monitors[h].url, status |-> "active"]

\* the task reading process h passes from having discovered a URL to having
\* recorded it
Records(h) == monitors[h].pc = "save" /\ monitors'[h].pc # "save"

RunningProcesses(provider) ==
  {h \in 1..Len(processes) : processes[h].provider = provider /\ processes[h].alive}

\* the tasks that still read the output of a process of the provider
ReadingTasks(provider) ==
  {h \in 1..Len(monitors) : processes[h].provider = provider /\ ~ReaderOver(h)}

\* C22: at any time each provider has at most one running process and at
\* most one task that reads a process's output and writes the provider's
\* entry of ACTIVE_TUNNELS, whatever calls of start_tunnel overlap.
C22_OneProcessPerProvider ==
  \A provider \in ProviderIds :
    /\ Cardinality(RunningProcesses(provider)) <= 1
    /\ Cardinality(ReadingTasks(provider)) <= 1

\* no process of the provider has been launched
NeverLaunched(provider) ==
  \A h \in 1..Len(processes) : processes[h].provider # provider

\* C23: a provider none of whose launches succeeded has no process handle
\* and no URL, so it is not advertised and start_tunnel, which refuses
\* only a provider that has a handle, will try to launch it again; and a
\* turn of the start-up loop that launches nothing moves on to the next
\* provider and leaves the handles and the URLs as they are.
C23_LaunchFailureContained ==
  /\ [](\A provider \in ProviderIds :
         NeverLaunched(provider) =>
           ~Registered(provider) /\ ~DictHas(ACTIVE_TUNNELS, provider))
  /\ [][(boot' # boot /\ processes' = processes) =>
          /\ boot' = boot + 1
          /\ UNCHANGED <<TUNNEL_PROCESSES, ACTIVE_TUNNELS>>]_vars

\* in v3.1 cloudflare, first in the start-up loop, was launched after ngrok:
\* its launch failed at start-up and a later start_tunnel launched it
C23_Witness ==
  /\ version = "v3.1"
  /\ Len(processes) = 2
  /\ processes[1].provider = "ngrok"
  /\ processes[2].provider = "cloudflare"
  /\ TUNNEL_PROCESSES["cloudflare"] = 2

\* process h has been terminated by stop_tunnel
Terminated(h) ==
  /\ version = "v3"
  /\ h <= Len(processes)
  /\ ~processes[h].alive
  /\ TUNNEL_PROCESSES[processes[h].provider] # h

\* C24: in v3, with the reading tasks scheduled fairly, the task that
\* monitors a process terminated by stop_tunnel reads what is left of the
\* process's output and ends.
C24_MonitorEndsAfterStop ==
  \A h \in 1..MaxProcs : Terminated(h) ~> (Terminated(h) /\ monitors[h].pc = "ended")

\* a stopped process whose monitoring task has ended, after it had recorded
\* the URL
C24_Witness ==
  \E h \in 1..Len(processes) :
    Terminated(h) /\ monitors[h].pc = "ended" /\ monitors[h].url # ""

\* the tunnel of process h is no longer pending: its URL is recorded, or the
\* process is gone, or the task that reads it has finished with a result
Settled(h) ==
  \/ DictHas(ACTIVE_TUNNELS, processes[h].provider)
  \/ ~processes[h].alive
  \/ ReaderOver(h)

\* C25: with the reading tasks scheduled fairly, every launched tunnel
\* eventually stops being pending, also when its process keeps running and
\* writes no line with a URL.
C25_SilentTunnelTimesOut ==
  \A h \in 1..MaxProcs : (h <= Len(processes)) ~> (h <= Len(processes) /\ Settled(h))

\* the examples of the help text of handle_agent_session, each with the
\* command the text shows for it
HelpExamples ==
  << [text |-> "What is the Python version?", command |-> "python --version"],
     [text |-> "List files", command |-> "ls -la"],
     [text |-> "Show current directory", command |-> "pwd"],
     [text |-> "Check disk space", command |-> "df -h"],
     [text |-> "Install pip package requests", command |-> "pip install requests"],
     [text |-> "/cmd python --version", command |-> "python --version"] >>

\* C26: a v3.1 turn whose text is an example of the help text is interpreted
\* as the command shown with the example, the command passes the safety
\* filter and it is handed to subprocess.run.
C26_HelpExamplesWork ==
  \A e \in 1..Len(HelpExamples) :
    (version = "v3.1" /\ Handled /\ message = HelpExamples[e].text) =>
      /\ interp.some
      /\ interp.command = HelpExamples[e].command
      /\ \E k \in CallsTo("_is_safe_command") :
           calls[k].arg = HelpExamples[e].command /\ calls[k].ret = "True"
      /\ \E k \in CallsTo("subprocess.run") : calls[k].arg = HelpExamples[e].command

\* a v3.1 turn whose single-line text was matched by a rule with a
\* placeholder
ParameterTurn ==
  /\ version = "v3.1" /\ RuleTurn
  /\ ~Contains(Normalized, "\n")
  /\ Len(DecidingMatch.match.groups) >= 1

\* C30: in such a turn the text substituted for {1} is whole words of the
\* user's text: it begins where a word begins, not inside one, and runs to
\* the end of the text.
C30_WholeArgument ==
  ParameterTurn =>
    LET g == DecidingMatch.match.groups[1]
    IN /\ g.to = Len(Normalized)
       /\ g.from = 1 \/ IsSpace(Ch(Normalized, g.from - 1))
       /\ interp.command =
            Replace(COMMAND_PATTERNS_v3_1[DecidingMatch.rule].command, "{1}",
                    Strip(Slice(Normalized, g.from, g.to)))

\* C27: in v3 and v3.1 every provider that has an entry in ACTIVE_TUNNELS
\* has an entry in TUNNEL_PROCESSES.
C27_AdvertisedHasHandle ==
  version \in {"v3", "v3.1"} =>
    \A k \in 1..Len(ACTIVE_TUNNELS) : Registered(ACTIVE_TUNNELS[k].provider)

\* the provider's registered process has exited on its own and the task that
\* monitored it has left its loop
DeadTunnel(provider) ==
  /\ version \in {"v3", "v3.1"}
  /\ Registered(provider)
  /\ ~processes[TUNNEL_PROCESSES[provider]].alive
  /\ monitors[TUNNEL_PROCESSES[provider]].pc = "ended"

\* C28: in v3 and v3.1 a start_tunnel(provider) called for a provider whose
\* process has exited on its own, its monitoring loop ended, calls Popen
\* for the provider.
C28_DeadTunnelRestarts ==
  \A provider \in ProviderIds : DeadTunnel(provider) => ReachesPopen(provider)

\* the URL advertised for a provider is in a row of tunnel_urls
Recorded(item) ==
  \E r \in 1..Len(tunnel_urls) :
    tunnel_urls[r].provider = item.provider /\ tunnel_urls[r].url = item.url

\* a task of the provider has assigned a URL and not yet saved it
Recording(provider) ==
  \E h \in 1..Len(monitors) :
    processes[h].provider = provider /\ monitors[h].pc = "save"

\* C29: in v3 and v3.1, with a tunnels database that may fail, no monitoring
\* task is ended by a storage error, and a URL that is advertised in
\* ACTIVE_TUNNELS, no save of the provider being under way, is recorded in
\* tunnel_urls.
C29_StorageErrorContained ==
  version \in {"v3", "v3.1"} =>
    /\ \A h \in 1..Len(monitors) : monitors[h].pc # "raised"
    /\ \A k \in 1..Len(ACTIVE_TUNNELS) :
         ~Recording(ACTIVE_TUNNELS[k].provider) => Recorded(ACTIVE_TUNNELS[k])

====
